---- MODULE Spec2Model ----
(***************************************************************************)
(* The preprocessing pipeline of scripts/preprocess_data.py:              *)
(*   main = ensure_directories; load_raw_data; preprocess_data;           *)
(*          save_processed_data                                           *)
(*                                                                         *)
(* Encoding of data.                                                       *)
(*  - A cell of a table is <<>> when it is missing (NaN / NaT) and <<v>>  *)
(*    when it holds the value v.                                           *)
(*  - A text is the sequence of its characters.                            *)
(*  - A table is [columns, rows]; rows is a sequence of records, and the   *)
(*    field n of a record says how many consecutive rows of the data frame *)
(*    hold exactly these cells (a run).  len(df) is the sum of the n's.    *)
(*    This keeps a table of 100001 rows small without changing what the    *)
(*    code computes from it.                                               *)
(*  - State and City names are natural numbers standing for the names in   *)
(*    their sort order.                                                    *)
(*  - Severity is held in half units (Severity 3 is 6), so that the mean   *)
(*    of the two middle values of a column is exact.                       *)
(***************************************************************************)
EXTENDS Integers, Sequences, FiniteSets, TLC

VARIABLES
    pc,         \* where main() is: "start", "ensured", "loaded", "processed",
                \* "saving", "done", "failed"
    input,      \* the file at USER_PROVIDED_PATH: [exists, st_size, table]
    dir_exists, \* whether PROCESSED_DIR exists
    raw_data,   \* main's raw_data (a table), <<>> before load_raw_data returns
    datasets,   \* main's processed_datasets (name -> table), <<>> before
    item,       \* save_processed_data: index of the next entry of datasets.items()
    files,      \* PROCESSED_DIR: file name -> <<>> (absent) or <<table>>
    written,    \* the file names whose to_csv returned in this run, in order
    error       \* the exception that ended the run, "none" if none

vars == <<pc, input, dir_exists, raw_data, datasets, item, files, written, error>>

----------------------------------------------------------------------------
(* Cells *)

NaN == <<>>

isna(c) == c = NaN

notna(c) == c # NaN

----------------------------------------------------------------------------
(* Text *)

UpperCase ==
    <<"A","B","C","D","E","F","G","H","I","J","K","L","M",
      "N","O","P","Q","R","S","T","U","V","W","X","Y","Z">>

LowerCase ==
    <<"a","b","c","d","e","f","g","h","i","j","k","l","m",
      "n","o","p","q","r","s","t","u","v","w","x","y","z">>

\* str.lower() on one character
lower_char(ch) ==
    IF \E i \in 1..Len(UpperCase) : UpperCase[i] = ch
    THEN LowerCase[CHOOSE i \in 1..Len(UpperCase) : UpperCase[i] = ch]
    ELSE ch

\* str.lower()
lower(s) == [i \in 1..Len(s) |-> lower_char(s[i])]

\* Python's  term in condition  on strings
in_str(term, s) ==
    \E i \in 1..(Len(s) - Len(term) + 1) : SubSeq(s, i, i + Len(term) - 1) = term

----------------------------------------------------------------------------
(* preprocess_data: weather categories *)

weather_mapping ==
    << [category |-> "clear", terms |-> <<
           <<"c","l","e","a","r">>,
           <<"f","a","i","r">>,
           <<"s","u","n","n","y">> >>],
       [category |-> "cloudy", terms |-> <<
           <<"c","l","o","u","d","y">>,
           <<"o","v","e","r","c","a","s","t">>,
           <<"p","a","r","t","l","y"," ","c","l","o","u","d","y">> >>],
       [category |-> "rain", terms |-> <<
           <<"r","a","i","n">>,
           <<"d","r","i","z","z","l","e">>,
           <<"s","h","o","w","e","r">> >>],
       [category |-> "snow", terms |-> <<
           <<"s","n","o","w">>,
           <<"s","l","e","e","t">>,
           <<"i","c","e">>,
           <<"f","r","e","e","z","i","n","g">> >>],
       [category |-> "fog", terms |-> <<
           <<"f","o","g">>,
           <<"h","a","z","e">>,
           <<"s","m","o","k","e">> >>],
       [category |-> "thunderstorm", terms |-> <<
           <<"t","h","u","n","d","e","r","s","t","o","r","m">>,
           <<"s","t","o","r","m">> >>],
       [category |-> "windy", terms |-> <<
           <<"w","i","n","d","y">>,
           <<"b","r","e","e","z","y">> >>] >>

\* any(term in condition for term in terms)
any_term(terms, condition) ==
    \E j \in 1..Len(terms) : in_str(terms[j], condition)

\* Mutant: the last matching category wins
map_from_last(condition, i) ==
    LET hits == {k \in i..Len(weather_mapping) :
                    any_term(weather_mapping[k].terms, condition)}
    IN  IF hits = {} THEN "other"
        ELSE weather_mapping[CHOOSE k \in hits : \A j \in hits : j <= k].category

\* the loop  for category, terms in weather_mapping.items()  from entry i on
RECURSIVE map_from(_, _)
map_from(condition, i) ==
    IF i > Len(weather_mapping) THEN "other"
    ELSE IF any_term(weather_mapping[i].terms, condition)
         THEN weather_mapping[i].category
         ELSE map_from(condition, i + 1)

\* Mutant: the text is matched as it is written, capitals included
map_weather_case_sensitive(condition) ==
    IF isna(condition) THEN "unknown"
    ELSE map_from(condition[1], 1)

\* map_weather applied to one cell of Weather_Condition
map_weather(condition) ==
    IF isna(condition) THEN "unknown"
    ELSE map_from(lower(condition[1]), 1)

----------------------------------------------------------------------------
(* Tables *)

\* s[1] + ... + s[i]
RECURSIVE SumTo(_, _)
SumTo(s, i) == IF i = 0 THEN 0 ELSE s[i] + SumTo(s, i - 1)

\* the sum of the numbers of the sequence s
SumSeq(s) == SumTo(s, Len(s))

\* len(df)
len(df) == SumSeq([i \in 1..Len(df.rows) |-> df.rows[i].n])

\* DataFrame.empty
empty(df) == df.rows = <<>>

\* pd.DataFrame()
DataFrame == [columns |-> {}, rows |-> <<>>]

Min(a, b) == IF a < b THEN a ELSE b

Max(a, b) == IF a > b THEN a ELSE b

\* The outcomes of DataFrame.sample(n=k): k of the rows, none taken twice
\* (replace=False).  An outcome keeps kept[i] of the rows of run i; which rows
\* the seed 42 picks is left open, and so is the order it leaves them in.
sample(df, k) ==
    LET rows == df.rows
        N == len(df)
        Range(i) == Max(0, k - (N - rows[i].n)) .. Min(rows[i].n, k)
        All == UNION {Range(i) : i \in 1..Len(rows)}
        Kept == {kept \in [1..Len(rows) -> All] :
                    /\ \A i \in 1..Len(rows) : kept[i] \in Range(i)
                    /\ SumSeq(kept) = k}
    IN  {[columns |-> df.columns,
          rows |-> SelectSeq([i \in 1..Len(rows) |-> [rows[i] EXCEPT !.n = kept[i]]],
                             LAMBDA r : r.n > 0)] : kept \in Kept}

\* round(x / 10), halves to the even neighbour: Python's round(frac * len)
\* with frac = 0.1
round_tenth(x) ==
    LET q == x \div 10
        r == x % 10
    IN  IF r > 5 \/ (r = 5 /\ q % 2 = 1) THEN q + 1 ELSE q

----------------------------------------------------------------------------
(* load_raw_data *)

GB == 1000000000

usecols ==
    {"ID", "Severity", "Start_Time", "End_Time", "Start_Lat", "Start_Lng",
     "City", "County", "State", "Temperature(F)", "Visibility(mi)",
     "Weather_Condition", "Sunrise_Sunset"}

\* Mutant: a file of exactly 1 GB is sampled too
load_raw_data_from_1GB(f) ==
    IF ~f.exists
    THEN {[error |-> "FileNotFoundError", df |-> <<>>]}
    ELSE IF f.st_size >= GB
    THEN IF ~(usecols \subseteq f.table.columns)
         THEN {[error |-> "ValueError", df |-> <<>>]}
         ELSE {[error |-> "none", df |-> s] :
                 s \in sample([columns |-> usecols, rows |-> f.table.rows],
                              round_tenth(len(f.table)))}
    ELSE {[error |-> "none", df |-> f.table]}

\* Mutant: a missing file is read as a table without rows
load_raw_data_unchecked(f) ==
    IF f.st_size > GB
    THEN IF ~(usecols \subseteq f.table.columns)
         THEN {[error |-> "ValueError", df |-> <<>>]}
         ELSE {[error |-> "none", df |-> s] :
                 s \in sample([columns |-> usecols, rows |-> f.table.rows],
                              round_tenth(len(f.table)))}
    ELSE {[error |-> "none", df |-> f.table]}

\* What load_raw_data returns or raises for the file f:
\* the set of [error, df] it can end with.
load_raw_data(f) ==
    IF ~f.exists
    THEN {[error |-> "FileNotFoundError", df |-> <<>>]}
    ELSE IF f.st_size > GB
    THEN IF ~(usecols \subseteq f.table.columns)
         THEN {[error |-> "ValueError", df |-> <<>>]}
         ELSE {[error |-> "none", df |-> s] :
                 s \in sample([columns |-> usecols, rows |-> f.table.rows],
                              round_tenth(len(f.table)))}
    ELSE {[error |-> "none", df |-> f.table]}

----------------------------------------------------------------------------
(* preprocess_data: derived columns *)

\* Series.dt.<field> of a Start_Time cell; a time stamp is a record
\* [year, month, day, hour, dayofweek]
dt(cell, field) == IF isna(cell) THEN NaN ELSE <<cell[1][field]>>

\* lambda x: 1 if x >= 5 else 0   (NaN >= 5 is False)
weekend(x) == IF notna(x) /\ x[1] >= 5 THEN 1 ELSE 0

\* lines 68-73 on one record
time_features(r) ==
    r @@ [Year |-> dt(r.Start_Time, "year"),
          Month |-> dt(r.Start_Time, "month"),
          Day |-> dt(r.Start_Time, "day"),
          Hour |-> dt(r.Start_Time, "hour"),
          DayOfWeek |-> dt(r.Start_Time, "dayofweek"),
          Weekend |-> <<weekend(dt(r.Start_Time, "dayofweek"))>>]

\* the values of column col that are not missing
values(rows, col) ==
    {rows[i][col][1] : i \in {j \in 1..Len(rows) : notna(rows[j][col])}}

\* Mutant: the lower of the two middle values, not their mean
median_lower(rows, col) ==
    LET N == SumSeq([i \in 1..Len(rows) |->
                        IF notna(rows[i][col]) THEN rows[i].n ELSE 0])
        le(v) == SumSeq([i \in 1..Len(rows) |->
                            IF notna(rows[i][col]) /\ rows[i][col][1] <= v
                            THEN rows[i].n ELSE 0])
        kth(k) == CHOOSE v \in values(rows, col) :
                     /\ le(v) >= k
                     /\ \A u \in values(rows, col) : u < v => le(u) < k
    IN  IF N = 0 THEN NaN ELSE <<kth((N + 1) \div 2)>>

\* Series.median(): missing cells are skipped; the middle value of the sorted
\* column, or the mean of the two middle values; NaN when nothing is left
median(rows, col) ==
    LET N == SumSeq([i \in 1..Len(rows) |->
                        IF notna(rows[i][col]) THEN rows[i].n ELSE 0])
        le(v) == SumSeq([i \in 1..Len(rows) |->
                            IF notna(rows[i][col]) /\ rows[i][col][1] <= v
                            THEN rows[i].n ELSE 0])
        \* the k-th smallest value
        kth(k) == CHOOSE v \in values(rows, col) :
                     /\ le(v) >= k
                     /\ \A u \in values(rows, col) : u < v => le(u) < k
    IN  IF N = 0 THEN NaN
        ELSE <<(kth((N + 1) \div 2) + kth((N + 2) \div 2)) \div 2>>

\* Series.fillna(value); fillna(NaN) changes nothing
fillna(rows, col, value) ==
    [i \in 1..Len(rows) |->
        IF isna(rows[i][col]) THEN [rows[i] EXCEPT ![col] = value] ELSE rows[i]]

\* lines 85-106 on one record
weather_category(r) ==
    r @@ [Weather_Category |-> <<map_weather(r.Weather_Condition)>>]

----------------------------------------------------------------------------
(* preprocess_data: aggregation *)

\* the key of a record under groupby(cols)
key(r, cols) == [i \in 1..Len(cols) |-> r[cols[i]]]

\* groupby drops the records with a missing key cell (dropna=True)
has_key(r, cols) == \A i \in 1..Len(cols) : notna(r[cols[i]])

\* the keys of the groups
group_keys(rows, cols) ==
    {key(rows[i], cols) : i \in {j \in 1..Len(rows) : has_key(rows[j], cols)}}

\* the order of number keys
key_less(a, b) ==
    \E i \in 1..Len(a) :
        /\ a[i][1] < b[i][1]
        /\ \A j \in 1..(i - 1) : a[j] = b[j]

\* the sort order of the category names
category_order ==
    <<"clear", "cloudy", "fog", "other", "rain", "snow", "thunderstorm",
      "unknown", "windy">>

category_rank(c) == CHOOSE i \in 1..Len(category_order) : category_order[i] = c

category_less(a, b) == category_rank(a[1][1]) < category_rank(b[1][1])

\* the sort order of the keys of a groupby: numbers, or category names
less(order, a, b) ==
    IF order = "category" THEN category_less(a, b) ELSE key_less(a, b)

\* the keys S in sort order: groupby sorts its groups (sort=True)
sorted_keys(S, order) ==
    LET pos == [x \in S |-> 1 + Cardinality({y \in S : less(order, y, x)})]
    IN  [p \in 1..Cardinality(S) |-> CHOOSE x \in S : pos[x] = p]

\* the number of rows of the group k: groupby(cols).size()
size(rows, cols, k) ==
    SumSeq([i \in 1..Len(rows) |->
              IF has_key(rows[i], cols) /\ key(rows[i], cols) = k
              THEN rows[i].n ELSE 0])

\* the number of rows of the group k whose cell col is not missing:
\* groupby(cols)[col].count()
count(rows, cols, k, col) ==
    SumSeq([i \in 1..Len(rows) |->
              IF has_key(rows[i], cols) /\ key(rows[i], cols) = k /\ notna(rows[i][col])
              THEN rows[i].n ELSE 0])

\* groupby(cols)[col].mean(): <<total, number>> over the cells of the group
\* that are not missing, NaN when there is none
mean(rows, cols, k, col) ==
    LET c == count(rows, cols, k, col)
        t == SumSeq([i \in 1..Len(rows) |->
                       IF has_key(rows[i], cols) /\ key(rows[i], cols) = k
                          /\ notna(rows[i][col])
                       THEN rows[i].n * rows[i][col][1] ELSE 0])
    IN  IF c = 0 THEN NaN ELSE << <<t, c>> >>

\* Mutant: every row of left joined with every row of right
merge_cross(left, right, col) ==
    [i \in 1..(Len(left) * Len(right)) |->
        left[1 + ((i - 1) \div Len(right))] @@ right[1 + ((i - 1) % Len(right))]]

\* pd.merge(left, right, on=col): inner join, in the order of left
RECURSIVE merge(_, _, _)
merge(left, right, col) ==
    IF left = <<>> THEN <<>>
    ELSE LET m == SelectSeq(right, LAMBDA r : r[col] = Head(left)[col])
         IN  [i \in 1..Len(m) |-> Head(left) @@ m[i]]
             \o merge(Tail(left), right, col)

\* Mutant: ascending order
sort_values_asc(rows, col, tie) ==
    LET before(i, j) ==
            \/ rows[i][col][1] < rows[j][col][1]
            \/ /\ rows[i][col][1] = rows[j][col][1]
               /\ IF tie = "first" THEN i < j ELSE i > j
        pos == [i \in 1..Len(rows) |->
                  1 + Cardinality({j \in 1..Len(rows) : before(j, i)})]
    IN  [p \in 1..Len(rows) |-> rows[CHOOSE i \in 1..Len(rows) : pos[i] = p]]

\* sort_values(col, ascending=False): the default sort is not stable, so
\* equal values come out in an order the code does not fix; tie chooses
\* between the two orders of the positions
sort_values_desc(rows, col, tie) ==
    LET before(i, j) ==
            \/ rows[i][col][1] > rows[j][col][1]
            \/ /\ rows[i][col][1] = rows[j][col][1]
               /\ IF tie = "first" THEN i < j ELSE i > j
        pos == [i \in 1..Len(rows) |->
                  1 + Cardinality({j \in 1..Len(rows) : before(j, i)})]
    IN  [p \in 1..Len(rows) |-> rows[CHOOSE i \in 1..Len(rows) : pos[i] = p]]

\* DataFrame.head(k)
head(rows, k) == SubSeq(rows, 1, Min(k, Len(rows)))

TopCities == 50

DayNames ==
    <<"Monday", "Tuesday", "Wednesday", "Thursday", "Friday", "Saturday", "Sunday">>

\* groupby(cols).size().reset_index(name='Accident_Count'): one record per
\* group, in the sort order of the keys
groupby_size(rows, cols, order) ==
    LET ks == sorted_keys(group_keys(rows, cols), order)
        names == {cols[i] : i \in 1..Len(cols)}
    IN  [p \in 1..Len(ks) |->
            [c \in names |-> ks[p][CHOOSE i \in 1..Len(cols) : cols[i] = c]]
            @@ [Accident_Count |-> <<size(rows, cols, ks[p])>>]]

\* groupby(<<by>>)[col].mean().reset_index(name='Avg_Severity')
groupby_mean(rows, by, col, order) ==
    LET ks == sorted_keys(group_keys(rows, <<by>>), order)
    IN  [p \in 1..Len(ks) |->
            [c \in {by} |-> ks[p][1]]
            @@ [Avg_Severity |-> mean(rows, <<by>>, ks[p], col)]]

\* lines 126-133: groupby('Weather_Category').agg({'ID': 'count',
\* 'Severity': 'mean'}) with the columns renamed
weather_agg(rows) ==
    LET ks == sorted_keys(group_keys(rows, <<"Weather_Category">>), "category")
    IN  [p \in 1..Len(ks) |->
            [Weather_Category |-> ks[p][1],
             Accident_Count |-> <<count(rows, <<"Weather_Category">>, ks[p], "ID")>>,
             Avg_Severity |-> mean(rows, <<"Weather_Category">>, ks[p], "Severity")]]

\* lines 120-123
day_name(r) ==
    r @@ [DayName |-> IF r.DayOfWeek[1] \in 0..6
                      THEN <<DayNames[r.DayOfWeek[1] + 1]>> ELSE NaN]

\* The names of datasets, in the order of datasets.items()
dataset_names ==
    <<"main_data", "state_data", "time_data", "hour_data", "weekday_data",
      "weather_data", "city_data">>

\* preprocess_data(df): [error, datasets].  tie is the order sort_values
\* leaves equal counts in.
preprocess_data(df, tie) ==
    IF \/ ~({"Start_Time", "State", "Severity"} \subseteq df.columns)
       \/ ("Weather_Condition" \in df.columns /\ "ID" \notin df.columns)
    THEN [error |-> "KeyError", datasets |-> <<>>]
    ELSE
    LET has_weather == "Weather_Condition" \in df.columns
        timed == [i \in 1..Len(df.rows) |-> time_features(df.rows[i])]
        filled == fillna(timed, "Severity", median(timed, "Severity"))
        rows == IF has_weather
                THEN [i \in 1..Len(filled) |-> weather_category(filled[i])]
                ELSE filled
        main_data ==
            [columns |-> df.columns
                         \cup {"Year", "Month", "Day", "Hour", "DayOfWeek", "Weekend"}
                         \cup (IF "End_Time" \in df.columns
                               THEN {"Duration_Minutes"} ELSE {})
                         \cup (IF has_weather THEN {"Weather_Category"} ELSE {}),
             rows |-> rows]
        state_counts == groupby_size(rows, <<"State">>, "number")
        state_severity == groupby_mean(rows, "State", "Severity", "number")
        state_data ==
            [columns |-> {"State", "Accident_Count", "Avg_Severity"},
             rows |-> merge(state_counts, state_severity, "State")]
        time_data ==
            [columns |-> {"Year", "Month", "Accident_Count"},
             rows |-> groupby_size(rows, <<"Year", "Month">>, "number")]
        hour_data ==
            [columns |-> {"Hour", "Accident_Count"},
             rows |-> groupby_size(rows, <<"Hour">>, "number")]
        weekday_counts == groupby_size(rows, <<"DayOfWeek", "Weekend">>, "number")
        weekday_data ==
            [columns |-> {"DayOfWeek", "Weekend", "Accident_Count", "DayName"},
             rows |-> [i \in 1..Len(weekday_counts) |-> day_name(weekday_counts[i])]]
        weather_data ==
            IF has_weather
            THEN [columns |-> {"Weather_Category", "Accident_Count", "Avg_Severity"},
                  rows |-> weather_agg(rows)]
            ELSE DataFrame
        city_data ==
            IF "City" \in df.columns
            THEN [columns |-> {"State", "City", "Accident_Count"},
                  rows |-> head(sort_values_desc(
                                    groupby_size(rows, <<"State", "City">>, "number"),
                                    "Accident_Count", tie),
                                TopCities)]
            ELSE DataFrame
    IN  [error |-> "none",
         datasets |-> [name \in {dataset_names[i] : i \in 1..Len(dataset_names)} |->
                        CASE name = "main_data" -> main_data
                          [] name = "state_data" -> state_data
                          [] name = "time_data" -> time_data
                          [] name = "hour_data" -> hour_data
                          [] name = "weekday_data" -> weekday_data
                          [] name = "weather_data" -> weather_data
                          [] name = "city_data" -> city_data]]

----------------------------------------------------------------------------
(* save_processed_data *)

SampleThreshold == 100000

SampleSize == 100000

\* Mutant: a table of exactly 100000 rows is sampled too
main_file_from_threshold(main_data) ==
    IF len(main_data) >= SampleThreshold
    THEN {[name |-> "accidents_sample.csv", data |-> s] :
            s \in sample(main_data, SampleSize)}
    ELSE {[name |-> "accidents_processed.csv", data |-> main_data]}

\* lines 157-161: the main file's name and content, one per outcome of sample
main_file(main_data) ==
    IF len(main_data) > SampleThreshold
    THEN {[name |-> "accidents_sample.csv", data |-> s] :
            s \in sample(main_data, SampleSize)}
    ELSE {[name |-> "accidents_processed.csv", data |-> main_data]}

\* PROCESSED_DIR / f"{name}.csv"
csv(name) ==
    CASE name = "state_data" -> "state_data.csv"
      [] name = "time_data" -> "time_data.csv"
      [] name = "hour_data" -> "hour_data.csv"
      [] name = "weekday_data" -> "weekday_data.csv"
      [] name = "weather_data" -> "weather_data.csv"
      [] name = "city_data" -> "city_data.csv"

\* Mutant: empty tables are written too
is_saved_empty_too(name, data) == name # "main_data"

\* line 165: whether the entry name, data of datasets is written
is_saved(name, data) == name # "main_data" /\ ~empty(data)

FileNames ==
    {"accidents_sample.csv", "accidents_processed.csv", "state_data.csv",
     "time_data.csv", "hour_data.csv", "weekday_data.csv", "weather_data.csv",
     "city_data.csv"}

\* What a write that raises can leave at the path: the file as it was (it
\* could not be opened), or a file cut short: its header alone, or all rows
\* but the last run
cut_short(data) ==
    {[data EXCEPT !.rows = SubSeq(data.rows, 1, k)] :
        k \in {0, Max(0, Len(data.rows) - 1)}}

\* DataFrame.to_csv(path): the file holds the table and the call returns, or
\* the write raises OSError. The run ends there: nothing in the script catches
\* the exception.
to_csv(path, data, next_pc) ==
    \E outcome \in {"written", "not opened", "cut short"}, left \in cut_short(data) :
        IF outcome = "written"
        THEN /\ files' = [files EXCEPT ![path] = <<data>>]
             /\ written' = Append(written, path)
             /\ pc' = next_pc
             /\ error' = error
        ELSE /\ pc' = "failed"
             /\ error' = "OSError"
             /\ written' = written
             /\ files' = IF outcome = "not opened" THEN files
                         ELSE [files EXCEPT ![path] = <<left>>]

----------------------------------------------------------------------------
(* main *)

\* line 174
EnsureDirectories ==
    /\ pc = "start"
    /\ dir_exists' = TRUE
    /\ pc' = "ensured"
    /\ UNCHANGED <<input, raw_data, datasets, item, files, written, error>>

\* line 175
LoadRawData ==
    /\ pc = "ensured"
    /\ \E res \in load_raw_data(input) :
          IF res.error = "none"
          THEN /\ raw_data' = res.df
               /\ pc' = "loaded"
               /\ error' = error
          ELSE /\ pc' = "failed"
               /\ error' = res.error
               /\ raw_data' = raw_data
    /\ UNCHANGED <<input, dir_exists, datasets, item, files, written>>

\* line 176; preprocess_data adds its columns to the table it is given, so
\* raw_data is main_data afterwards
PreprocessData ==
    /\ pc = "loaded"
    /\ \E tie \in {"first", "last"} :
          LET res == preprocess_data(raw_data, tie)
          IN  IF res.error = "none"
              THEN /\ datasets' = res.datasets
                   /\ raw_data' = res.datasets["main_data"]
                   /\ pc' = "processed"
                   /\ error' = error
              ELSE /\ pc' = "failed"
                   /\ error' = res.error
                   /\ UNCHANGED <<raw_data, datasets>>
    /\ UNCHANGED <<input, dir_exists, item, files, written>>

\* line 177, lines 157-161
SaveMain ==
    /\ pc = "processed"
    /\ \E f \in main_file(datasets["main_data"]) : to_csv(f.name, f.data, "saving")
    /\ item' = 1
    /\ UNCHANGED <<input, dir_exists, raw_data, datasets>>

\* lines 164-166: one turn of the loop over datasets.items()
SaveItem ==
    /\ pc = "saving"
    /\ item <= Len(dataset_names)
    /\ LET name == dataset_names[item]
       IN  IF is_saved(name, datasets[name])
           THEN to_csv(csv(name), datasets[name], "saving")
           ELSE UNCHANGED <<files, written, pc, error>>
    /\ item' = item + 1
    /\ UNCHANGED <<input, dir_exists, raw_data, datasets>>

\* lines 168, 179: the loop is over, save_processed_data and main return
Return ==
    /\ pc = "saving"
    /\ item > Len(dataset_names)
    /\ pc' = "done"
    /\ UNCHANGED <<input, dir_exists, raw_data, datasets, item, files, written, error>>

Next ==
    \/ EnsureDirectories
    \/ LoadRawData
    \/ PreprocessData
    \/ SaveMain
    \/ SaveItem
    \/ Return

\* The state main() starts in, for the input file f
Start(f) ==
    /\ pc = "start"
    /\ input = f
    /\ dir_exists = FALSE
    /\ raw_data = <<>>
    /\ datasets = <<>>
    /\ item = 0
    /\ files = [name \in FileNames |-> NaN]
    /\ written = <<>>
    /\ error = "none"

----------------------------------------------------------------------------
(* Input files *)

AllColumns == usecols \cup {"Description"}

\* Saturday 2023-03-04 23h and Monday 2022-12-26 08h
Saturday == [year |-> 2023, month |-> 3, day |-> 4, hour |-> 23, dayofweek |-> 5]

Monday == [year |-> 2022, month |-> 12, day |-> 26, hour |-> 8, dayofweek |-> 0]

\* A run of n rows that hold every cell
FullRow(n) ==
    [ID |-> <<1>>, Severity |-> <<4>>, Start_Time |-> <<Saturday>>, State |-> <<1>>,
     City |-> <<1>>, Weather_Condition |-> << <<"F","a","i","r">> >>, n |-> n]

\* rows with the cells of the columns that the file does not have left out
Table(columns, rows) ==
    [columns |-> columns,
     rows |-> [i \in 1..Len(rows) |->
                 [c \in DOMAIN rows[i] |->
                     IF c = "n" \/ c \in columns THEN rows[i][c] ELSE NaN]]]

SmallSize == 4096

File(exists, st_size, table) ==
    [exists |-> exists, st_size |-> st_size, table |-> table]

\* sequences over S of length at most k
SeqUpTo(S, k) == UNION {[1..m -> S] : m \in 0..k}

----------------------------------------------------------------------------
(* Weather texts *)

Words ==
    << <<"c","l","e","a","r">>,
       <<"f","a","i","r">>,
       <<"s","u","n","n","y">>,
       <<"c","l","o","u","d","y">>,
       <<"o","v","e","r","c","a","s","t">>,
       <<"p","a","r","t","l","y"," ","c","l","o","u","d","y">>,
       <<"r","a","i","n">>,
       <<"d","r","i","z","z","l","e">>,
       <<"s","h","o","w","e","r">>,
       <<"s","n","o","w">>,
       <<"s","l","e","e","t">>,
       <<"i","c","e">>,
       <<"f","r","e","e","z","i","n","g">>,
       <<"f","o","g">>,
       <<"h","a","z","e">>,
       <<"s","m","o","k","e">>,
       <<"t","h","u","n","d","e","r","s","t","o","r","m">>,
       <<"s","t","o","r","m">>,
       <<"w","i","n","d","y">>,
       <<"b","r","e","e","z","y">>,
       <<"t","o","r","n","a","d","o">>,
       <<"l","i","g","h","t">> >>

upper_char(ch) ==
    IF \E i \in 1..Len(LowerCase) : LowerCase[i] = ch
    THEN UpperCase[CHOOSE i \in 1..Len(LowerCase) : LowerCase[i] = ch]
    ELSE ch

upper(s) == [i \in 1..Len(s) |-> upper_char(s[i])]

\* each word with a capital first letter
title(s) ==
    [i \in 1..Len(s) |-> IF i = 1 \/ s[i - 1] = " " THEN upper_char(s[i]) ELSE s[i]]

\* the words joined by single spaces
RECURSIVE Join(_)
Join(ws) ==
    IF ws = <<>> THEN <<>>
    ELSE IF Len(ws) = 1 THEN ws[1]
    ELSE ws[1] \o <<" ">> \o Join(Tail(ws))

\* the words that phrases of several words are made of
CoreWords ==
    << <<"c","l","e","a","r">>,
       <<"p","a","r","t","l","y"," ","c","l","o","u","d","y">>,
       <<"r","a","i","n">>,
       <<"s","h","o","w","e","r">>,
       <<"s","n","o","w">>,
       <<"i","c","e">>,
       <<"f","r","e","e","z","i","n","g">>,
       <<"f","o","g">>,
       <<"s","t","o","r","m">>,
       <<"w","i","n","d","y">>,
       <<"t","o","r","n","a","d","o">>,
       <<"l","i","g","h","t">> >>

MaxWords == 2

Phrases ==
    {Words[i] : i \in 1..Len(Words)}
    \cup {Join([i \in 1..Len(ix) |-> CoreWords[ix[i]]]) :
            ix \in SeqUpTo(1..Len(CoreWords), MaxWords)}

Texts == Phrases \cup {upper(t) : t \in Phrases} \cup {title(t) : t \in Phrases}

\* One row whose weather text is any of the texts, or missing
WeatherInputs ==
    {File(e, SmallSize, Table(AllColumns, <<[FullRow(1) EXCEPT !.Weather_Condition = w]>>)) :
        e \in BOOLEAN, w \in {NaN} \cup {<<t>> : t \in Texts}}

InitWeather == \E f \in WeatherInputs : Start(f)

SpecWeather == InitWeather /\ [][Next]_vars

----------------------------------------------------------------------------
(* Claims about the weather categories *)

\* preprocess_data has returned: datasets holds its tables
Preprocessed == pc \in {"processed", "saving", "done"} \/ error = "OSError"

\* the rows of the enriched table
Enriched == datasets["main_data"].rows

Text_CLEAR == <<"C","L","E","A","R">>

Text_Freezing_Rain == <<"F","r","e","e","z","i","n","g"," ","R","a","i","n">>

Text_tornado == <<"t","o","r","n","a","d","o">>

\* the category given to every enriched row whose weather cell is w is c
Maps(w, c) ==
    \A i \in 1..Len(Enriched) :
        Enriched[i].Weather_Condition = w => Enriched[i].Weather_Category = <<c>>

\* C1 (as amended): "CLEAR" maps to "clear", "Freezing Rain" maps to "rain"
\* (rain is the first category in table order with a keyword in it), a missing
\* value maps to "unknown", and "tornado" maps to "other".
C1_Examples ==
    Preprocessed =>
        /\ Maps(<<Text_CLEAR>>, "clear")
        /\ Maps(<<Text_Freezing_Rain>>, "rain")
        /\ Maps(NaN, "unknown")
        /\ Maps(<<Text_tornado>>, "other")

\* C1 as stated: "Freezing Rain" maps to "snow".
C1_AsStated ==
    Preprocessed =>
        /\ Maps(<<Text_CLEAR>>, "clear")
        /\ Maps(<<Text_Freezing_Rain>>, "snow")
        /\ Maps(NaN, "unknown")
        /\ Maps(<<Text_tornado>>, "other")

\* "Freezing Rain" has been through the transformer
C1_Witness ==
    /\ Preprocessed
    /\ \E i \in 1..Len(Enriched) :
          Enriched[i].Weather_Condition = <<Text_Freezing_Rain>>

\* the table order of the claim
TableOrder == <<"clear", "cloudy", "rain", "snow", "fog", "thunderstorm", "windy">>

NineCategories ==
    {"clear", "cloudy", "rain", "snow", "fog", "thunderstorm", "windy", "unknown", "other"}

\* some keyword of the category named c occurs in the text t
Hit(c, t) ==
    \E k \in 1..Len(weather_mapping) :
        /\ weather_mapping[k].category = c
        /\ \E j \in 1..Len(weather_mapping[k].terms) :
              in_str(weather_mapping[k].terms[j], t)

\* C2: a text that is not missing gets the first category, in table order,
\* with a keyword occurring in the lower-cased text, and "other" when there is
\* none; a missing text gets "unknown"; the same text in another letter case
\* gets the same category; the category is one of the nine.
C2_FirstMatch ==
    Preprocessed =>
        \A i \in 1..Len(Enriched) :
            LET w == Enriched[i].Weather_Condition
                c == Enriched[i].Weather_Category[1]
            IN  /\ c \in NineCategories
                /\ isna(w) => c = "unknown"
                /\ notna(w) =>
                      /\ \A k \in 1..Len(TableOrder) :
                            c = TableOrder[k] <=>
                                /\ Hit(TableOrder[k], lower(w[1]))
                                /\ \A j \in 1..(k - 1) : ~Hit(TableOrder[j], lower(w[1]))
                      /\ c = "other" <=>
                            \A k \in 1..Len(TableOrder) : ~Hit(TableOrder[k], lower(w[1]))
                      /\ map_weather(<<upper(w[1])>>) = c
                      /\ map_weather(<<lower(w[1])>>) = c
                      /\ map_weather(<<title(w[1])>>) = c

\* a text with keywords of two categories, in capitals, has its category
C2_Witness ==
    /\ Preprocessed
    /\ \E i \in 1..Len(Enriched) :
          LET w == Enriched[i].Weather_Condition
          IN  /\ notna(w)
              /\ w[1] # lower(w[1])
              /\ Hit("rain", lower(w[1]))
              /\ Hit("snow", lower(w[1]))
              /\ Enriched[i].Weather_Category = <<"rain">>

----------------------------------------------------------------------------
(* Small tables *)

MaxRows == 3

\* the files that exist, are small and hold at most MaxRows runs drawn from
\* Runs, and one file that does not exist
SmallInputs(columns, Runs) ==
    {File(FALSE, SmallSize, Table(columns, <<>>))}
    \cup {File(TRUE, SmallSize, Table(columns, rows)) : rows \in SeqUpTo(Runs, MaxRows)}

\* Severity 1 to 4 (in half units) or missing, one or two rows to a run
SeverityRuns ==
    {[FullRow(n) EXCEPT !.Severity = v] :
        n \in 1..2, v \in {NaN, <<2>>, <<4>>, <<6>>, <<8>>}}

InitSeverity == \E f \in SmallInputs(AllColumns, SeverityRuns) : Start(f)

SpecSeverity == InitSeverity /\ [][Next]_vars

\* two states or a missing State, one or two rows to a run
StateRuns ==
    {[FullRow(n) EXCEPT !.State = v] : n \in 1..2, v \in {NaN, <<1>>, <<2>>}}

InitState == \E f \in SmallInputs(AllColumns, StateRuns) : Start(f)

SpecState == InitState /\ [][Next]_vars

\* rain, fair weather or no weather text, with an ID or without
IdRuns ==
    {[FullRow(1) EXCEPT !.ID = id, !.Weather_Condition = w] :
        id \in {NaN, <<1>>},
        w \in {NaN, << <<"R","a","i","n">> >>, << <<"F","a","i","r">> >>}}

InitIds ==
    \E f \in SmallInputs(AllColumns, IdRuns)
             \cup SmallInputs(AllColumns \ {"Weather_Condition"}, {FullRow(1)}) :
        Start(f)

SpecIds == InitIds /\ [][Next]_vars

----------------------------------------------------------------------------
(* Claims about Severity *)

\* the number of rows among rows that satisfy P
Rows(rows, P(_)) == SumSeq([i \in 1..Len(rows) |-> IF P(rows[i]) THEN rows[i].n ELSE 0])

\* m is the median of the Severity values of rows that are not missing: the
\* value with fewer than half of them on either side, or the mean of the two
\* values a < b with half of them up to a and half of them from b on
IsMedian(m, rows) ==
    LET N == Rows(rows, LAMBDA r : notna(r.Severity))
        V == {rows[i].Severity[1] : i \in {j \in 1..Len(rows) : notna(rows[j].Severity)}}
    IN  \E a \in V, b \in V :
            /\ a <= b
            /\ 2 * m = a + b
            /\ \/ /\ a = b
                  /\ 2 * Rows(rows, LAMBDA r : notna(r.Severity) /\ r.Severity[1] < a) < N
                  /\ 2 * Rows(rows, LAMBDA r : notna(r.Severity) /\ r.Severity[1] > a) < N
               \/ /\ a < b
                  /\ 2 * Rows(rows, LAMBDA r : notna(r.Severity) /\ r.Severity[1] <= a) = N
                  /\ 2 * Rows(rows, LAMBDA r : notna(r.Severity) /\ r.Severity[1] >= b) = N

\* the rows of the input file
Raw == input.table.rows

\* every row keeps a Severity that was present, and a missing one holds the
\* median of those present
SeverityFilled ==
    /\ Len(Enriched) = Len(Raw)
    /\ \A i \in 1..Len(Raw) :
          /\ Enriched[i].n = Raw[i].n
          /\ notna(Raw[i].Severity) => Enriched[i].Severity = Raw[i].Severity
          /\ (isna(Raw[i].Severity) /\ \E j \in 1..Len(Raw) : notna(Raw[j].Severity)) =>
                /\ notna(Enriched[i].Severity)
                /\ IsMedian(Enriched[i].Severity[1], Raw)

\* the rows in another order give the same Severity, row by row (looked at
\* where preprocess_data returns)
OrderIndependent ==
    pc = "processed" =>
    \A p \in Permutations(1..Len(Raw)) :
        LET shuffled == [columns |-> input.table.columns,
                         rows |-> [i \in 1..Len(Raw) |-> Raw[p[i]]]]
            out == preprocess_data(shuffled, "first").datasets["main_data"].rows
        IN  \A i \in 1..Len(Raw) : out[i].Severity = Enriched[p[i]].Severity

\* C6 (as amended): a missing Severity is replaced by the median of the
\* Severity values present, a Severity that is present is kept, the result
\* does not depend on the order of the rows, and no Severity is missing
\* afterwards provided one was present; when every Severity is missing, every
\* Severity stays missing.
C6_MedianFill ==
    Preprocessed =>
        /\ SeverityFilled
        /\ OrderIndependent
        /\ (\E j \in 1..Len(Raw) : notna(Raw[j].Severity)) =>
              \A i \in 1..Len(Enriched) : notna(Enriched[i].Severity)
        /\ (\A j \in 1..Len(Raw) : isna(Raw[j].Severity)) =>
              \A i \in 1..Len(Enriched) : isna(Enriched[i].Severity)

\* C6 as stated: no Severity is missing after the transformer, also when
\* every Severity of the input is missing.
C6_AsStated ==
    Preprocessed =>
        /\ SeverityFilled
        /\ OrderIndependent
        /\ \A i \in 1..Len(Enriched) : notna(Enriched[i].Severity)

\* a missing Severity was filled with the mean of two different middle values
C6_Witness ==
    /\ Preprocessed
    /\ \E i \in 1..Len(Raw) :
          /\ isna(Raw[i].Severity)
          /\ notna(Enriched[i].Severity)
          /\ \A j \in 1..Len(Raw) : Raw[j].Severity # Enriched[i].Severity

----------------------------------------------------------------------------
(* Claims about the counts by state and by weather category *)

Table_(name) == datasets[name].rows

\* the sum of Accident_Count over the table called name
TotalCount(name) ==
    SumSeq([i \in 1..Len(Table_(name)) |-> Table_(name)[i].Accident_Count[1]])

\* C3 (as amended): the sum of Accident_Count over state_data equals the
\* number of rows of the enriched table whose State is not missing.
C3_StateCounts ==
    Preprocessed =>
        TotalCount("state_data") = Rows(Enriched, LAMBDA r : notna(r.State))

\* C3 as stated: the sum of Accident_Count over state_data equals the number
\* of rows of the enriched table, also when some State is missing.
C3_AsStated ==
    Preprocessed => TotalCount("state_data") = len(datasets["main_data"])

\* two states are counted and a row has no State
C3_Witness ==
    /\ Preprocessed
    /\ Len(Table_("state_data")) = 2
    /\ \E i \in 1..Len(Enriched) : isna(Enriched[i].State)

\* C10: with a Weather_Condition column, the Accident_Count of every category
\* of weather_data is the number of enriched rows of that category, and the
\* counts sum to the number of rows, also when some ID is missing.
C10_WeatherCounts ==
    (Preprocessed /\ "Weather_Condition" \in input.table.columns) =>
        /\ \A i \in 1..Len(Table_("weather_data")) :
              Table_("weather_data")[i].Accident_Count[1]
                = Rows(Enriched, LAMBDA r :
                        r.Weather_Category = Table_("weather_data")[i].Weather_Category)
        /\ TotalCount("weather_data") = len(datasets["main_data"])

----------------------------------------------------------------------------
(* Tables of many cities *)

MaxExtra == 2

\* one row for each of the cities 1..g, spread over three states
CityRows(g) ==
    [c \in 1..g |-> [FullRow(1) EXCEPT !.State = <<1 + (c % 3)>>, !.City = <<c>>]]

\* more rows: two of the first city, two of a city not among 1..g, or one
\* without a City
ExtraRuns(g) ==
    {[FullRow(2) EXCEPT !.State = <<2>>, !.City = <<1>>],
     [FullRow(2) EXCEPT !.State = <<2>>, !.City = <<g + 1>>],
     [FullRow(1) EXCEPT !.State = <<2>>, !.City = NaN]}

CityInputs ==
    {File(FALSE, SmallSize, Table(AllColumns, <<>>)),
     File(TRUE, SmallSize, Table(AllColumns \ {"City"}, CityRows(2)))}
    \cup UNION {{File(TRUE, SmallSize, Table(AllColumns, CityRows(g) \o extra)) :
                    extra \in SeqUpTo(ExtraRuns(g), MaxExtra)} :
                 g \in {0, 1, TopCities - 1, TopCities, TopCities + 1}}

InitCity == \E f \in CityInputs : Start(f)

SpecCity == InitCity /\ [][Next]_vars

----------------------------------------------------------------------------
(* Claims about city_data *)

\* the (State, City) pairs of the enriched rows that miss neither
CityGroups ==
    {<<Enriched[i].State, Enriched[i].City>> :
        i \in {j \in 1..Len(Enriched) :
                 notna(Enriched[j].State) /\ notna(Enriched[j].City)}}

\* the number of enriched rows of the pair g
GroupCount(g) ==
    Rows(Enriched, LAMBDA r : r.State = g[1] /\ r.City = g[2])

\* the pairs that city_data holds
Kept == {<<Table_("city_data")[i].State, Table_("city_data")[i].City>> :
            i \in 1..Len(Table_("city_data"))}

\* C7: with a City column city_data has at most 50 rows, in non-increasing
\* order of Accident_Count, and no (State, City) group left out of it has a
\* larger Accident_Count than a group kept; without a City column city_data is
\* the empty table.
C7_TopCities ==
    Preprocessed =>
        IF "City" \in input.table.columns
        THEN /\ Len(Table_("city_data")) <= 50
             /\ \A i \in 1..Len(Table_("city_data")), j \in 1..Len(Table_("city_data")) :
                   i < j => Table_("city_data")[i].Accident_Count[1]
                              >= Table_("city_data")[j].Accident_Count[1]
             /\ Kept \subseteq CityGroups
             /\ \A i \in 1..Len(Table_("city_data")) :
                   Table_("city_data")[i].Accident_Count[1]
                     = GroupCount(<<Table_("city_data")[i].State,
                                    Table_("city_data")[i].City>>)
             /\ \A i \in 1..Len(Table_("city_data")) :
                   \A g \in CityGroups \ Kept :
                       GroupCount(g) <= Table_("city_data")[i].Accident_Count[1]
        ELSE datasets["city_data"] = DataFrame

\* more than 50 groups, and a group of one row is left out while a group of
\* more rows is kept
C7_Witness ==
    /\ Preprocessed
    /\ Cardinality(CityGroups) > 50
    /\ Len(Table_("city_data")) = 50
    /\ \E g \in CityGroups \ Kept :
          GroupCount(g) < Table_("city_data")[1].Accident_Count[1]

----------------------------------------------------------------------------
(* Files of any size *)

MaxTail == 2

\* rows that hold every cell, rows without a State, rows without a Start_Time
RowKinds(n) ==
    {FullRow(n),
     [FullRow(n) EXCEPT !.State = NaN, !.Weather_Condition = NaN],
     [FullRow(n) EXCEPT !.Start_Time = NaN, !.ID = <<2>>]}

\* a table of one long run, around the sampling threshold of the writer or of
\* no row or one row, followed by a run of at most MaxTail rows
MainTables(columns) ==
    {Table(columns, SelectSeq(<<a, b>>, LAMBDA r : r.n > 0)) :
        a \in UNION {RowKinds(n) : n \in {0, 1, SampleThreshold - 1, SampleThreshold}},
        b \in UNION {RowKinds(n) : n \in 0..MaxTail}}

MainInputs ==
    {File(e, bytes, t) :
        e \in BOOLEAN,
        bytes \in {SmallSize, GB, GB + 1},
        t \in UNION {MainTables(columns) :
                        columns \in {AllColumns, AllColumns \ {"City"},
                                     AllColumns \ {"Weather_Condition"},
                                     {"ID", "Severity", "Start_Time", "State"},
                                     AllColumns \ {"State"}}}}

Init == \E f \in MainInputs : Start(f)

Spec == Init /\ [][Next]_vars

----------------------------------------------------------------------------
(* Claims about the files written *)

Present(name) == notna(files[name])

\* the cells of a run
Cells(r) == [r EXCEPT !.n = 0]

\* the rows of a are rows of b, none of them twice
SubTable(a, b) ==
    /\ a.columns = b.columns
    /\ \A i \in 1..Len(a.rows) :
          Rows(a.rows, LAMBDA r : Cells(r) = Cells(a.rows[i]))
            <= Rows(b.rows, LAMBDA r : Cells(r) = Cells(a.rows[i]))

\* to_csv has returned for the file called name
Written(name) == \E i \in 1..Len(written) : written[i] = name

\* C4: the two main files are never both written; when the enriched table has
\* more than 100000 rows accidents_processed.csv is not written and the main
\* file written is accidents_sample.csv, with exactly 100000 distinct rows of
\* the enriched table; otherwise (exactly 100000 rows included)
\* accidents_sample.csv is not written and the main file written is
\* accidents_processed.csv, with every row of the enriched table.
C4_OneMainFile ==
    /\ ~(Present("accidents_sample.csv") /\ Present("accidents_processed.csv"))
    /\ ~(Written("accidents_sample.csv") /\ Written("accidents_processed.csv"))
    /\ Preprocessed =>
          IF len(datasets["main_data"]) > 100000
          THEN /\ ~Present("accidents_processed.csv")
               /\ written # <<>> =>
                     /\ written[1] = "accidents_sample.csv"
                     /\ len(files["accidents_sample.csv"][1]) = 100000
                     /\ SubTable(files["accidents_sample.csv"][1], datasets["main_data"])
          ELSE /\ ~Present("accidents_sample.csv")
               /\ written # <<>> =>
                     /\ written[1] = "accidents_processed.csv"
                     /\ files["accidents_processed.csv"][1] = datasets["main_data"]

\* a sample of a table of two kinds of rows is written
C4_Witness ==
    /\ Written("accidents_sample.csv")
    /\ Len(datasets["main_data"].rows) = 2
    /\ len(datasets["main_data"]) > 100000

\* C5: a complete run on a file of at most 1 GB and at most 100000 rows
\* writes accidents_processed.csv with the rows of the input, each once.
C5_RowsPreserved ==
    (pc = "done" /\ input.st_size <= 1000000000 /\ len(input.table) <= 100000) =>
        /\ Written("accidents_processed.csv")
        /\ ~Present("accidents_sample.csv")
        /\ LET out == files["accidents_processed.csv"][1]
           IN  /\ len(out) = len(input.table)
               /\ Len(out.rows) = Len(Raw)
               /\ \A i \in 1..Len(Raw) :
                     /\ out.rows[i].n = Raw[i].n
                     /\ out.rows[i].ID = Raw[i].ID
                     /\ out.rows[i].State = Raw[i].State
                     /\ out.rows[i].Start_Time = Raw[i].Start_Time

\* a complete run on a file of exactly 1 GB and exactly 100000 rows
C5_Witness ==
    /\ pc = "done"
    /\ input.st_size = 1000000000
    /\ len(input.table) = 100000
    /\ Len(Raw) = 2

NoFileWritten == written = <<>> /\ \A name \in FileNames : ~Present(name)

\* C8: when the input file does not exist, load_raw_data raises
\* FileNotFoundError, the run ends there (the load is not tried again),
\* preprocess_data and save_processed_data are never executed and no file
\* is written.
C8_MissingInput ==
    /\ [](~input.exists =>
            /\ pc \in {"start", "ensured", "failed"}
            /\ pc = "failed" => error = "FileNotFoundError"
            /\ pc # "failed" => error = "none"
            /\ raw_data = <<>>
            /\ datasets = <<>>
            /\ NoFileWritten)
    /\ [][(~input.exists /\ pc = "failed") => UNCHANGED vars]_vars

\* the run has ended with the missing-input-file error
C8_Witness ==
    /\ ~input.exists
    /\ pc = "failed"
    /\ error = "FileNotFoundError"
    /\ dir_exists

\* the aggregate tables, in the order they are saved
Aggregates ==
    <<"state_data", "time_data", "hour_data", "weekday_data", "weather_data",
      "city_data">>

MainFiles == {"accidents_sample.csv", "accidents_processed.csv"}

IsPrefix(s, t) == Len(s) <= Len(t) /\ s = SubSeq(t, 1, Len(s))

\* the files of the aggregate tables that are not empty, in order
NonEmptyFiles ==
    LET names == SelectSeq(Aggregates, LAMBDA name : ~empty(datasets[name]))
    IN  [i \in 1..Len(names) |-> csv(names[i])]

\* C9: the first file written is the main file; after it come the files of
\* the non-empty aggregate tables, in the order of the tables, each holding its
\* table, and all of them when the run completes; no file is made for an empty
\* aggregate table; a write that fails ends the run: nothing more is written,
\* and the files written before it stay as they are.
C9_AggregateFiles ==
    /\ [](/\ \A name \in FileNames :
                /\ Written(name) => Present(name)
                /\ (Present(name) /\ ~Written(name)) => error = "OSError"
          /\ written # <<>> =>
                /\ written[1] \in MainFiles
                /\ IsPrefix(Tail(written), NonEmptyFiles)
                /\ pc = "done" => Tail(written) = NonEmptyFiles
                /\ error = "OSError" => Tail(written) # NonEmptyFiles
                /\ \A k \in 1..Len(Aggregates) :
                      /\ Written(csv(Aggregates[k])) =>
                            files[csv(Aggregates[k])][1] = datasets[Aggregates[k]]
                      /\ empty(datasets[Aggregates[k]]) => ~Present(csv(Aggregates[k]))
          /\ (pc = "done" /\ error = "none") =>
                \A k \in 1..Len(Aggregates) :
                    Written(csv(Aggregates[k])) <=> ~empty(datasets[Aggregates[k]]))
    /\ [][/\ error = "OSError" => UNCHANGED <<files, written, pc, error>>
          /\ \A name \in FileNames : Written(name) => files'[name] = files[name]]_vars

\* a write failed after the main file and an aggregate file were written,
\* and an empty aggregate table was passed over
C9_Witness ==
    /\ pc = "failed"
    /\ error = "OSError"
    /\ Len(written) >= 2
    /\ empty(datasets["state_data"])
    /\ ~Written("state_data.csv")
    /\ ~empty(datasets["weekday_data"])
    /\ ~Written("weekday_data.csv")

====
